---- MODULE Spec2Model ----
(***************************************************************************)
(* Trainer and GANTrainer of ddsp/training/trainers.py: the training step  *)
(* (step_fn / train_step, on a batch or a batch iterator), save with       *)
(* bounded retention, and full or partial restore, over a small model with *)
(* three parameter groups.                                                 *)
(*                                                                         *)
(* The TensorFlow objects the trainer drives are modelled by what they do: *)
(*  - a Keras optimizer creates its variables lazily: `iterations` on its  *)
(*    first access, the slot of a model variable at the first              *)
(*    apply_gradients that carries a gradient for it;                      *)
(*  - tf.train.Checkpoint writes the variables that exist, and on restore  *)
(*    assigns the variables found in the record: a live variable the       *)
(*    record lacks keeps its value, a value for a variable not created yet *)
(*    is held back and assigned at creation, a shape mismatch raises;      *)
(*  - tf.train.CheckpointManager keeps the records in the order they were  *)
(*    written and deletes from the front of that order.                    *)
(***************************************************************************)
EXTENDS Integers, Sequences, FiniteSets, TLC

VARIABLES
  gan,                 \* TRUE: the trainer is a GANTrainer, FALSE: a Trainer
  n_replicas,          \* strategy.num_replicas_in_sync
  checkpoints_to_keep, \* self.checkpoints_to_keep
  restore_keys,        \* self.restore_keys (constructor argument)
  no_grad,             \* model variables the losses do not depend on
  rep,                 \* per replica: the mirrored model and optimizer variables
  dataset_iter,        \* the batch iterator: how many batches were drawn from it
  files,               \* checkpoint records of the directory, by number
  state_file,          \* the directory's `checkpoint` file: latest + tracked paths
  n_ops,               \* operations performed since construction
  out                  \* the last operation: its name, arguments and outcome

vars == <<gan, n_replicas, checkpoints_to_keep, restore_keys, no_grad,
          rep, dataset_iter, files, state_file, n_ops, out>>

config == <<gan, n_replicas, checkpoints_to_keep, restore_keys, no_grad>>

----------------------------------------------------------------------------
(* Bounds of the model. *)

MaxOps == 4        \* operations performed on one trainer
MaxReplicas == 2   \* one replica, or MaxReplicas of them
MaxKeep == 2       \* checkpoints_to_keep is 1 or MaxKeep

(* Gradients, losses and model variables are floating-point numbers; they   *)
(* are held in fixed point, One units to 1.0, and every division and       *)
(* square root rounds to the nearest unit.                                 *)
One == 4

(* grad_clip_norm, the constructor's default 3.0. *)
grad_clip_norm == 3 * One

None == "None"

----------------------------------------------------------------------------
(* The model: three disjoint parameter groups of sizes 2, 3 and 1.  Each    *)
(* group is also a submodule (an attribute of the model) that restore_keys *)
(* can name.                                                               *)

generator_variables == {"g1", "g2"}
discriminator_variables == {"d1", "d2", "d3"}
other_variables == {"o1"}
trainable_variables ==
  generator_variables \cup discriminator_variables \cup other_variables

Submodules == {"generator", "discriminator", "other"}

\* getattr(self.model, k): the variables under attribute k of the model.
ModelAttr(k) ==
  CASE k = "generator" -> generator_variables
    [] k = "discriminator" -> discriminator_variables
    [] k = "other" -> other_variables

\* Every live variable has this shape; a record of another model may not.
Shape(v) == 1

\* The optimizers a trainer owns.
Optimizers(isGan) ==
  IF isGan THEN {"optimizer", "g_optimizer", "d_optimizer"} ELSE {"optimizer"}

\* The generator's optimizer handed the discriminator's variables as well.
OptimizerVars_Shared(isGan, o) ==
  IF ~isGan THEN trainable_variables
  ELSE CASE o = "g_optimizer" -> generator_variables \cup discriminator_variables
         [] o = "d_optimizer" -> discriminator_variables
         [] o = "optimizer" -> other_variables

\* The variables an optimizer is handed in step_fn.
OptimizerVars(isGan, o) ==
  IF ~isGan THEN trainable_variables
  ELSE CASE o = "g_optimizer" -> generator_variables
         [] o = "d_optimizer" -> discriminator_variables
         [] o = "optimizer" -> other_variables

----------------------------------------------------------------------------
(* An optimizer variable (iterations, or the slot of a model variable) is  *)
(* absent until created; a restore that finds no live variable leaves the  *)
(* value deferred until the variable is created.                           *)

Absent == [st |-> "absent", val |-> 0]
Created(x) == [st |-> "created", val |-> x]
Deferred(x) == [st |-> "deferred", val |-> x]

\* The state a fresh trainer holds on one replica, the model being built.
InitReplica(isGan) ==
  [w    |-> [v \in trainable_variables |-> 0],
   iter |-> [o \in Optimizers(isGan) |-> Absent],
   slot |-> [o \in Optimizers(isGan) |-> [v \in trainable_variables |-> Absent]]]

\* Trainer.step: optimizer.iterations of the primary optimizer.  Reading the
\* property creates the variable, with the deferred value if one is pending.
step == rep[1].iter["optimizer"].val

\* The iterations variable created at its initial value, a pending value lost.
TouchStep_Reset(ts) ==
  [ts EXCEPT !.iter["optimizer"] = IF @.st = "created" THEN @ ELSE Created(0)]

TouchStep(ts) ==
  [ts EXCEPT !.iter["optimizer"] = Created(@.val)]

----------------------------------------------------------------------------
(* Gradients.  The strategy gives every replica its shard of the batch; the *)
(* gradient of a loss with respect to a variable is decided by the         *)
(* replica's shard.  A variable the loss does not depend on has the        *)
(* gradient None: it is absent from the domain of the gradient function.   *)

\* The batches a caller hands over itself; the iterator yields others too.
Batches == {1}

\* The dataset the iterator runs over: its i-th batch, i = 1, 2, ...
Dataset(i) == IF i % 2 = 1 THEN 2 ELSE 1

\* What train_step is handed: the iterator, or a batch.
Iterator == [kind |-> "iterator", batch |-> 0]
Batch(b) == [kind |-> "batch", batch |-> b]

\* next(inputs) traced once: the iterator's first batch on every call.
InputBatch_Traced(inputs) ==
  IF inputs.kind = "iterator" THEN Dataset(1) ELSE inputs.batch

\* `next(inputs) if hasattr(inputs, '__next__') else inputs`: the batch.
InputBatch(inputs) ==
  IF inputs.kind = "iterator" THEN Dataset(dataset_iter + 1) ELSE inputs.batch

\* ... and the iterator after it.
InputDrawn(inputs) ==
  IF inputs.kind = "iterator" THEN dataset_iter + 1 ELSE dataset_iter

\* The shard of batch b that replica r is handed.
Shard(b, r) == IF r % 2 = 1 THEN b ELSE 1

Gradient(v, shard) ==
  IF v \in discriminator_variables THEN 0 - shard * One ELSE shard * One

\* tape.gradient(loss, var_list) on one replica.
TapeGradient(var_list, shard) ==
  [v \in var_list \ no_grad |-> Gradient(v, shard)]

RECURSIVE SumSq(_, _)
SumSq(S, g) ==
  IF S = {} THEN 0
  ELSE LET v == CHOOSE x \in S : TRUE
       IN  g[v] * g[v] + SumSq(S \ {v}, g)

RECURSIVE FloorSqrt(_, _, _)
\* The largest r in lo..hi with r * r <= n, by bisection.
FloorSqrt(n, lo, hi) ==
  IF lo >= hi THEN lo
  ELSE LET mid == (lo + hi + 1) \div 2
       IN  IF mid * mid <= n THEN FloorSqrt(n, mid, hi)
           ELSE FloorSqrt(n, lo, mid - 1)

\* The square root, rounded to the nearest unit.
Sqrt(n) ==
  LET r == FloorSqrt(n, 0, n)
  IN  IF n - r * r > r THEN r + 1 ELSE r

\* The quotient a / b (b > 0), rounded to the nearest unit.
RoundDiv(a, b) ==
  IF a >= 0 THEN (2 * a + b) \div (2 * b)
  ELSE 0 - ((2 * (0 - a) + b) \div (2 * b))

\* tf.clip_by_global_norm(grads, clip_norm)[0]: None entries are ignored, and
\* all entries are scaled by clip_norm / max(global_norm, clip_norm).
clip_by_global_norm(g, clip_norm) ==
  LET n2 == SumSq(DOMAIN g, g)
      global_norm == Sqrt(n2)
  IN  IF n2 <= clip_norm * clip_norm THEN g
      ELSE [v \in DOMAIN g |-> RoundDiv(g[v] * clip_norm, global_norm)]

\* One clip over the gradients of all the variables together.
ClippedGrads_Joint(o, shard) ==
  LET joint == clip_by_global_norm(TapeGradient(trainable_variables, shard),
                                   grad_clip_norm)
  IN  [v \in OptimizerVars(gan, o) \ no_grad |-> joint[v]]

\* The clipped gradients replica r hands to optimizer o.
ClippedGrads(o, shard) ==
  clip_by_global_norm(TapeGradient(OptimizerVars(gan, o), shard), grad_clip_norm)

RECURSIVE ReduceSum(_, _)
\* The strategy's sum over the replicas 1..n of f[r].
ReduceSum(f, n) == IF n = 0 THEN 0 ELSE f[n] + ReduceSum(f, n - 1)

\* The gradient optimizer o applies: the replicas' clipped gradients, summed.
ReducedGrads(o, batch) ==
  LET clipped == [r \in 1..n_replicas |-> ClippedGrads(o, Shard(batch, r))]
  IN  [v \in OptimizerVars(gan, o) \ no_grad |->
         ReduceSum([r \in 1..n_replicas |-> clipped[r][v]], n_replicas)]

\* optimizer.apply_gradients(zip(grads, vars)) on one replica's copy: entries
\* with gradient None are dropped, the slots of the others are created, the
\* variables are updated and the optimizer's iterations advance by one.
apply_gradients(ts, o, g) ==
  [ts EXCEPT
     !.w = [v \in DOMAIN @ |-> IF v \in DOMAIN g THEN @[v] - g[v] ELSE @[v]],
     !.slot[o] = [v \in DOMAIN @ |->
                    IF v \in DOMAIN g THEN Created(@[v].val + g[v]) ELSE @[v]],
     !.iter[o] = Created(@.val + 1)]

\* apply_gradients raises ValueError("No gradients provided for any variable")
\* when every entry it is given has gradient None.
NoGradients(o) == OptimizerVars(gan, o) \ no_grad = {}

\* step_fn with the three groups applied through self.optimizer.
step_fn_OneOptimizer(ts, batch) ==
  IF gan
  THEN apply_gradients(
         apply_gradients(
           apply_gradients(ts, "optimizer", ReducedGrads("g_optimizer", batch)),
           "optimizer", ReducedGrads("d_optimizer", batch)),
         "optimizer", ReducedGrads("optimizer", batch))
  ELSE apply_gradients(ts, "optimizer", ReducedGrads("optimizer", batch))

\* Trainer.step_fn / GANTrainer.step_fn on one replica's copy.
step_fn(ts, batch) ==
  IF gan
  THEN apply_gradients(
         apply_gradients(
           apply_gradients(ts, "g_optimizer", ReducedGrads("g_optimizer", batch)),
           "d_optimizer", ReducedGrads("d_optimizer", batch)),
         "optimizer", ReducedGrads("optimizer", batch))
  ELSE apply_gradients(ts, "optimizer", ReducedGrads("optimizer", batch))

NoKeys == <<>>          \* restore_keys = None
Keys(S) == <<S>>        \* restore_keys = a list naming the submodules S
Dir == [kind |-> "dir", n |-> 0]
File(n) == [kind |-> "file", n |-> n]

\* What `out` keeps of an operation: its name and the error it raised; for a
\* train step what it was handed (the iterator or a batch), the batch it
\* ran on and the losses it returned; for a restore
\* the record it resolved (<<>>: none), the keys it went by and whether it
\* repeats the restore just before it; for a save the records it deleted.
Outcome(op, err) ==
  [op |-> op, err |-> err, inputs |-> None, batch |-> <<>>, losses |-> <<>>,
   ckpt |-> <<>>, keys |-> NoKeys, again |-> FALSE, deleted |-> {}]

\* The names of the losses the model returns.
LossNames(isGan) ==
  IF isGan THEN {"total_g_loss", "total_d_loss", "total_other_loss"}
  ELSE {"total_loss"}

\* The LossMapping the model returns on a replica handed this shard.
Losses(shard) ==
  [k \in LossNames(gan) |->
     shard * One + (IF k = "total_d_loss" THEN 1 ELSE 0)]

\* The loss summed over the replicas, the division by their number left out.
MeanLoss_Sum(k, batch) ==
  ReduceSum([r \in 1..n_replicas |-> Losses(Shard(batch, r))[k]], n_replicas)

\* self.psum(v, axis=None) / n_replicas for the entry k of the losses.
MeanLoss(k, batch) ==
  RoundDiv(ReduceSum([r \in 1..n_replicas |-> Losses(Shard(batch, r))[k]],
                     n_replicas),
           n_replicas)

\* Every replica left to the gradients that its own shard alone would give.
run_Unreduced(batch) ==
  [r \in DOMAIN rep |-> step_fn(rep[r], Shard(batch, r))]

\* self.run(self.step_fn, batch): step_fn on every replica's copy.
run(batch) ==
  [r \in DOMAIN rep |-> step_fn(rep[r], batch)]

\* Trainer.train_step(inputs): one batch, run on every replica.  The step
\* that raises does so in apply_gradients: while the function is traced,
\* before any batch is drawn, or after the draw when it runs eagerly.
train_step(inputs) ==
  LET batch == InputBatch(inputs)
  IN  /\ IF \E o \in Optimizers(gan) : NoGradients(o)
         THEN /\ out' = Outcome("train_step", "ValueError")
              /\ UNCHANGED rep
              /\ dataset_iter' \in {dataset_iter, InputDrawn(inputs)}
         ELSE /\ rep' = run(batch)
              /\ dataset_iter' = InputDrawn(inputs)
              /\ out' = [Outcome("train_step", None) EXCEPT
                           !.inputs = inputs.kind,
                           !.batch = <<batch>>,
                           !.losses = <<[k \in LossNames(gan) |->
                                          MeanLoss(k, batch)]>>]
      /\ UNCHANGED <<config, files, state_file>>

----------------------------------------------------------------------------
(* Checkpoint records.  A record holds the model variables with their      *)
(* shapes and, for every optimizer of the trainer that wrote it, the       *)
(* optimizer variables that existed.  `saved` is the value every optimizer *)
(* variable of the writing trainer had, created or not (<<>> for a record  *)
(* this trainer did not write).                                            *)

OptimizerValue(ts) ==
  [iter |-> [o \in DOMAIN ts.iter |-> ts.iter[o].val],
   slot |-> [o \in DOMAIN ts.slot |->
               [v \in DOMAIN ts.slot[o] |-> ts.slot[o][v].val]]]

\* The values held on one replica: model and optimizer variables.
Value(ts) == [w |-> ts.w, opt |-> OptimizerValue(ts)]

\* get_checkpoint() written out: tf.train.Checkpoint(model=..., optimizer=...,
\* and for a GANTrainer g_optimizer=..., d_optimizer=...).
get_checkpoint(ts) ==
  [model |-> [v \in trainable_variables |-> [shape |-> Shape(v), val |-> ts.w[v]]],
   opt   |-> [o \in Optimizers(gan) |->
               [iter |-> IF ts.iter[o].st = "created"
                         THEN <<ts.iter[o].val>> ELSE <<>>,
                slot |-> [v \in {x \in trainable_variables :
                                   ts.slot[o][x].st = "created"} |->
                            ts.slot[o][v].val]]],
   saved |-> <<OptimizerValue(ts)>>]

\* A record left in the directory by an earlier run of a Trainer at step n.
OldRecord(model, n) ==
  [model |-> model,
   opt   |-> [o \in {"optimizer"} |->
               [iter |-> <<n>>,
                slot |-> [v \in DOMAIN model \cap trainable_variables |-> 1]]],
   saved |-> <<>>]

\* ... of a model whose variable g1 had another shape.
OldShapes ==
  [v \in trainable_variables |->
     [shape |-> IF v = "g1" THEN 2 ELSE 1, val |-> 1]]

\* ... of a model without the discriminator and with a variable x1.
OldVariables ==
  [v \in (trainable_variables \ discriminator_variables) \cup {"x1"} |->
     [shape |-> 1, val |-> 1]]

NoFiles == [n \in {} |-> 0]
NoStateFile == [latest |-> <<>>, all |-> <<>>]

\* The directory at construction: empty, or holding the records of two
\* earlier runs, written at their steps 1 and 2.
InitDirs ==
  { <<NoFiles, NoStateFile>>,
    <<[n \in {1, 2} |-> IF n = 1 THEN OldRecord(OldVariables, 1)
                                 ELSE OldRecord(OldShapes, 2)],
      [latest |-> <<2>>, all |-> <<1, 2>>]>> }

Range(q) == {q[i] : i \in DOMAIN q}

RECURSIVE Sweep_LowestStep(_, _)
\* _sweep deleting the record with the lowest number first.
Sweep_LowestStep(maybe_delete, max_to_keep) ==
  IF Len(maybe_delete) > max_to_keep
  THEN LET low == CHOOSE n \in Range(maybe_delete) :
                    \A m \in Range(maybe_delete) : n <= m
       IN  Sweep_LowestStep(SelectSeq(maybe_delete, LAMBDA x : x # low), max_to_keep)
  ELSE maybe_delete

RECURSIVE Sweep_KeepOneMore(_, _)
\* _sweep stopping one path above max_to_keep.
Sweep_KeepOneMore(maybe_delete, max_to_keep) ==
  IF Len(maybe_delete) > max_to_keep + 1
  THEN Sweep_KeepOneMore(Tail(maybe_delete), max_to_keep)
  ELSE maybe_delete

RECURSIVE Sweep(_, _)
\* CheckpointManager._sweep: while more than max_to_keep paths are tracked,
\* the first of them, in the order they were written, is deleted.
Sweep(maybe_delete, max_to_keep) ==
  IF Len(maybe_delete) > max_to_keep
  THEN Sweep(Tail(maybe_delete), max_to_keep)
  ELSE maybe_delete

\* CheckpointManager.save(checkpoint_number): the path is tracked last, a
\* path written again moves to the end.
Track(maybe_delete, number) ==
  SelectSeq(maybe_delete, LAMBDA x : x # number) \o <<number>>

\* manager.save() without its checkpoint_number: records numbered by a count.
CheckpointNumber_SaveCounter(ts) == Len(state_file.all) + 1

\* manager.save(checkpoint_number=step): the record's number is self.step.
CheckpointNumber(ts) == ts.iter["optimizer"].val

\* Trainer.save(save_dir).
save ==
  LET ts(r)   == TouchStep(rep[r])        \* self.step creates iterations
      number  == CheckpointNumber(ts(1))
      tracked == Track(state_file.all, number)
      kept    == Sweep(tracked, checkpoints_to_keep)
      deleted == Range(tracked) \ Range(kept)
  IN  /\ rep' = [r \in DOMAIN rep |-> ts(r)]
      /\ files' = [n \in (DOMAIN files \cup {number}) \ deleted |->
                     IF n = number THEN get_checkpoint(ts(1)) ELSE files[n]]
      /\ state_file' = [latest |-> <<number>>, all |-> kept]
      /\ out' = [Outcome("save", None) EXCEPT !.deleted = deleted]
      /\ UNCHANGED <<config, dataset_iter>>

----------------------------------------------------------------------------
(* Restore. *)

\* train_util.get_latest_checkpoint(checkpoint_path): the path itself when it
\* names a record, else the record the directory's `checkpoint` file points
\* to; <<>> stands for the FileNotFoundError raised when there is none.
get_latest_checkpoint(path) ==
  IF path.kind = "file" /\ path.n \in DOMAIN files THEN <<path.n>>
  ELSE IF path.kind = "dir" THEN state_file.latest
  ELSE <<>>

\* `self.restore_keys or restore_keys`: the constructor's keys first.
EffectiveKeys_CtorFirst(keys) ==
  IF restore_keys # NoKeys /\ restore_keys[1] # {} THEN restore_keys ELSE keys

\* `restore_keys or self.restore_keys`: None and the empty list are falsy.
EffectiveKeys(keys) ==
  IF keys # NoKeys /\ keys[1] # {} THEN keys ELSE restore_keys

\* The restore target built from the whole model whatever the keys.
RestoreTarget_WholeModel(keys) == trainable_variables

\* The model variables of the restore target: the whole model when the keys
\* are None, else the submodules the keys name.
RestoreTarget(keys) ==
  IF keys = NoKeys THEN trainable_variables
  ELSE UNION {ModelAttr(k) : k \in keys[1]}

\* Shapes never compared.
ShapeMismatch_Ignored(rec, target) == {}

\* The variables of the target that the record holds with another shape.
ShapeMismatch(rec, target) ==
  {v \in target \cap DOMAIN rec.model : rec.model[v].shape # Shape(v)}

\* assign_add in place of assign.
Assign_Add(ov, x) ==
  IF ov.st = "created" THEN Created(ov.val + x) ELSE Deferred(x)

\* Assigning a restored value: at once to a variable that exists, at its
\* creation otherwise.
Assign(ov, x) == IF ov.st = "created" THEN Created(x) ELSE Deferred(x)

\* Every model variable of the record assigned, in the target or not.
RestoreValues_WholeRecord(ts, rec, vs) ==
  [w    |-> [v \in DOMAIN ts.w |->
               IF v \in DOMAIN rec.model THEN rec.model[v].val ELSE ts.w[v]],
   iter |-> [o \in DOMAIN ts.iter |->
               IF o \in DOMAIN rec.opt /\ rec.opt[o].iter # <<>>
               THEN Assign(ts.iter[o], rec.opt[o].iter[1]) ELSE ts.iter[o]],
   slot |-> [o \in DOMAIN ts.slot |->
               [v \in DOMAIN ts.slot[o] |->
                  IF /\ o \in DOMAIN rec.opt
                     /\ v \in DOMAIN rec.model
                     /\ v \in DOMAIN rec.opt[o].slot
                  THEN Assign(ts.slot[o][v], rec.opt[o].slot[v])
                  ELSE ts.slot[o][v]]]]

\* checkpoint.restore(latest_checkpoint) on one replica's copy, for the model
\* variables vs: they, their slots and every optimizer's iterations take the
\* record's value where the record has one.
RestoreValues(ts, rec, vs) ==
  [w    |-> [v \in DOMAIN ts.w |->
               IF v \in vs \cap DOMAIN rec.model
               THEN rec.model[v].val ELSE ts.w[v]],
   iter |-> [o \in DOMAIN ts.iter |->
               IF o \in DOMAIN rec.opt /\ rec.opt[o].iter # <<>>
               THEN Assign(ts.iter[o], rec.opt[o].iter[1]) ELSE ts.iter[o]],
   slot |-> [o \in DOMAIN ts.slot |->
               [v \in DOMAIN ts.slot[o] |->
                  IF /\ o \in DOMAIN rec.opt
                     /\ v \in vs \cap DOMAIN rec.model
                     /\ v \in DOMAIN rec.opt[o].slot
                  THEN Assign(ts.slot[o][v], rec.opt[o].slot[v])
                  ELSE ts.slot[o][v]]]]

\* A restore that passes over a missing checkpoint in silence.
RestoreError_IgnoreMissing(path, keys) ==
  LET latest == get_latest_checkpoint(path)
  IN  IF latest = <<>> THEN None
      ELSE IF ShapeMismatch(files[latest[1]], RestoreTarget(EffectiveKeys(keys))) # {}
           THEN "ValueError"
           ELSE None

\* What restore raises: FileNotFoundError from get_latest_checkpoint, the
\* ValueError of an assignment whose shapes differ, or nothing.
RestoreError(path, keys) ==
  LET latest == get_latest_checkpoint(path)
  IN  IF latest = <<>> THEN "FileNotFoundError"
      ELSE IF ShapeMismatch(files[latest[1]], RestoreTarget(EffectiveKeys(keys))) # {}
           THEN "ValueError"
           ELSE None

\* A restore that, finding no checkpoint, starts the trainer afresh.
restore_ClearsOnMissing(path, keys) ==
  LET err    == RestoreError(path, keys)
      latest == get_latest_checkpoint(path)
      scope  == EffectiveKeys(keys)
      target == RestoreTarget(scope)
      rec    == files[latest[1]]
      fits   == target \ ShapeMismatch(rec, target)
  IN  /\ out' = [Outcome("restore", err) EXCEPT
                   !.ckpt = latest, !.keys = scope,
                   !.again = /\ out.op = "restore" /\ out.err = None
                             /\ out.ckpt = latest /\ out.keys = scope]
      /\ IF latest = <<>> THEN rep' = [r \in DOMAIN rep |-> InitReplica(gan)]
         ELSE IF err = "ValueError"
         THEN \/ UNCHANGED rep
              \/ rep' = [r \in DOMAIN rep |-> RestoreValues(rep[r], rec, fits)]
         ELSE rep' = [r \in DOMAIN rep |-> RestoreValues(rep[r], rec, fits)]
      /\ UNCHANGED <<config, dataset_iter, files, state_file>>

\* Trainer.restore(checkpoint_path, restore_keys).  The variables are assigned
\* one after the other, so a restore that raises on a shape has assigned the
\* variables that came before: the two ends of that range are modelled, no
\* variable and every variable whose shape fits.
restore(path, keys) ==
  LET err    == RestoreError(path, keys)
      latest == get_latest_checkpoint(path)
      scope  == EffectiveKeys(keys)
      target == RestoreTarget(scope)
      rec    == files[latest[1]]
      fits   == target \ ShapeMismatch(rec, target)
  IN  /\ out' = [Outcome("restore", err) EXCEPT
                   !.ckpt = latest, !.keys = scope,
                   !.again = /\ out.op = "restore" /\ out.err = None
                             /\ out.ckpt = latest /\ out.keys = scope]
      /\ IF latest = <<>> THEN UNCHANGED rep
         ELSE IF err = "ValueError"
         THEN \/ UNCHANGED rep
              \/ rep' = [r \in DOMAIN rep |-> RestoreValues(rep[r], rec, fits)]
         ELSE rep' = [r \in DOMAIN rep |-> RestoreValues(rep[r], rec, fits)]
      /\ UNCHANGED <<config, dataset_iter, files, state_file>>

----------------------------------------------------------------------------
(* The trainer after construction, and its operations. *)

CtorKeys == {NoKeys, Keys({"generator"})}
ArgKeys == {NoKeys, Keys({}), Keys({"discriminator"})}
\* The losses reach every variable, or all but g2, or (the losses of a
\* GANTrainer) none of the group `other`.
NoGrads(isGan) == IF isGan THEN {{}, {"g2"}, {"o1"}} ELSE {{}, {"g2"}}
\* The directory, every record in it, and the record numbered 0 or its absence.
Inputs == {Iterator} \cup {Batch(b) : b \in Batches}
Paths == {Dir} \cup {File(n) : n \in DOMAIN files \cup {0}}

Init ==
  /\ gan \in BOOLEAN
  /\ n_replicas \in {1, MaxReplicas}
  /\ checkpoints_to_keep \in {1, MaxKeep}
  /\ restore_keys \in CtorKeys
  /\ no_grad \in NoGrads(gan)
  /\ rep = [r \in 1..n_replicas |-> InitReplica(gan)]
  /\ dataset_iter = 0
  /\ \E d \in InitDirs : files = d[1] /\ state_file = d[2]
  /\ n_ops = 0
  /\ out = Outcome("init", None)

\* One more operation of the caller, while the run is within its bound.
Count == n_ops < MaxOps /\ n_ops' = n_ops + 1

TrainStep == Count /\ \E inputs \in Inputs : train_step(inputs)
Save == Count /\ save
Restore == Count /\ \E path \in Paths, keys \in ArgKeys : restore(path, keys)

Next == TrainStep \/ Save \/ Restore

Spec == Init /\ [][Next]_vars

----------------------------------------------------------------------------
(* Properties. *)

\* The step of the behaviour is a completed operation named op.
Did(op) == out'.op = op /\ n_ops' = n_ops + 1

\* C1: one completed train_step increases GlobalStep (the iterations of the
\* primary optimizer) by exactly 1 on every replica, for a Trainer and for a
\* GANTrainer, whatever the batch and the replica count.
C1_StepIncreasesByOne ==
  [][(Did("train_step") /\ out'.err = None) =>
       \A r \in DOMAIN rep :
         /\ rep'[r].iter["optimizer"].st = "created"
         /\ rep'[r].iter["optimizer"].val = rep[r].iter["optimizer"].val + 1]_vars

\* A GANTrainer on several replicas has completed a train step from step 0.
C1_Witness ==
  /\ out.op = "train_step" /\ out.err = None
  /\ gan /\ n_replicas > 1 /\ step = 1

\* The group an optimizer of a GANTrainer is responsible for.
GroupOf(o) ==
  CASE o = "g_optimizer" -> generator_variables
    [] o = "d_optimizer" -> discriminator_variables
    [] o = "optimizer" -> other_variables

\* C2: in one train step of a GANTrainer each of the three optimizers applies
\* exactly one update (its iterations advance by 1), touches the slots of no
\* variable outside its own group, every variable that changes is changed by
\* the update its own group's optimizer recorded, and GlobalStep increases by
\* 1, not by 3.
C2_OneUpdatePerGroup ==
  [][(Did("train_step") /\ out'.err = None /\ gan) =>
       \A r \in DOMAIN rep :
         /\ \A o \in {"optimizer", "g_optimizer", "d_optimizer"} :
              /\ rep'[r].iter[o].val = rep[r].iter[o].val + 1
              /\ \A v \in trainable_variables \ GroupOf(o) :
                   rep'[r].slot[o][v] = rep[r].slot[o][v]
              /\ \A v \in GroupOf(o) :
                   rep[r].w[v] - rep'[r].w[v] =
                     rep'[r].slot[o][v].val - rep[r].slot[o][v].val
         /\ rep'[r].iter["optimizer"].val = rep[r].iter["optimizer"].val + 1]_vars

\* A GANTrainer whose losses reach every variable has completed its first
\* train step: each optimizer has stepped once and holds slots for its group.
C2_Witness ==
  /\ out.op = "train_step" /\ out.err = None /\ gan /\ no_grad = {}
  /\ \A o \in {"optimizer", "g_optimizer", "d_optimizer"} :
       /\ rep[1].iter[o] = Created(1)
       /\ \A v \in GroupOf(o) : rep[1].slot[o][v].st = "created"
                                /\ rep[1].slot[o][v].val # 0

Min(a, b) == IF a <= b THEN a ELSE b

\* C3 as stated: when a save leaves more than checkpoints_to_keep records to
\* choose from, exactly checkpoints_to_keep remain, they are the ones with the
\* highest step numbers, and every record evicted has a lower step number
\* than every record kept, whatever order the records were written in.
C3_KeepsHighestSteps ==
  [][Did("save") =>
       LET before == DOMAIN files \cup {step'}
           after  == DOMAIN files'
       IN  Cardinality(before) > checkpoints_to_keep =>
             /\ Cardinality(after) = checkpoints_to_keep
             /\ \A e \in before \ after : \A m \in after : e < m]_vars

\* C3 amended: a save keeps the record it wrote, leaves
\* min(checkpoints_to_keep, records before and the new one) records, and
\* evicts in the order of writing: a record written before the save's own
\* survives only if every record written after it survives too.
C3_EvictsOldestWritten ==
  [][Did("save") =>
       LET written == state_file.all
           before  == DOMAIN files \cup {step'}
           after   == DOMAIN files'
       IN  /\ step' \in after
           /\ Cardinality(after) = Min(checkpoints_to_keep, Cardinality(before))
           /\ out'.deleted = before \ after
           /\ \A i, j \in DOMAIN written :
                (i < j /\ written[i] # step' /\ written[i] \in after)
                  => written[j] \in after]_vars

\* A save has evicted a record whose step number is higher than that of a
\* record it kept.
C3_Witness ==
  /\ out.op = "save" /\ out.deleted # {}
  /\ \E e \in out.deleted : \E m \in DOMAIN files : m < e

\* C4: save at GlobalStep s leaves GlobalStep at s and writes the record
\* numbered s, holding iterations = s, as the directory's latest (the only
\* record when checkpoints_to_keep = 1); a restore of the whole model from
\* the directory's latest record sets GlobalStep to that record's number.
C4_SaveNumberedRestoreLatest ==
  [][/\ Did("save") =>
          /\ step' = step
          /\ step \in DOMAIN files'
          /\ state_file'.latest = <<step>>
          /\ files'[step].opt["optimizer"].iter = <<step>>
          /\ checkpoints_to_keep = 1 => DOMAIN files' = {step}
     /\ (/\ Did("restore") /\ out'.err = None /\ out'.keys = NoKeys
         /\ out'.ckpt = state_file.latest)
          => step' = state_file.latest[1]]_vars

\* With checkpoints_to_keep = 1 the trainer saved, trained one step further
\* and saved again; the one record left is numbered by the later step, and a
\* restore of the whole model from the directory has put GlobalStep there.
C4_Witness ==
  /\ checkpoints_to_keep = 1 /\ restore_keys = NoKeys
  /\ out.op = "restore" /\ out.err = None /\ out.keys = NoKeys
  /\ out.ckpt = state_file.latest
  /\ DOMAIN files = {1} /\ files[1].saved # <<>>
  /\ step = 1

\* The model variables a restore by `keys` is asked for.
Requested(keys) ==
  IF keys = NoKeys THEN trainable_variables
  ELSE UNION {ModelAttr(k) : k \in keys[1]}

\* C5 as stated: a completed restore from a record this trainer saved in state
\* s leaves, on every replica, the requested model variables, every
\* optimizer's iterations and the slots of the requested variables with the
\* values they had in s.
C5_RoundTrip ==
  [][(/\ Did("restore") /\ out'.err = None /\ out'.ckpt # <<>>
      /\ files[out'.ckpt[1]].saved # <<>>) =>
       LET s == files[out'.ckpt[1]].saved[1]
           m == files[out'.ckpt[1]].model
       IN  \A r \in DOMAIN rep :
             /\ \A v \in Requested(out'.keys) : rep'[r].w[v] = m[v].val
             /\ \A o \in DOMAIN s.iter :
                  /\ rep'[r].iter[o].val = s.iter[o]
                  /\ \A v \in Requested(out'.keys) :
                       rep'[r].slot[o][v].val = s.slot[o][v]]_vars

\* C6: a restore that finds no checkpoint record under its path (an empty
\* directory, or a path that resolves to no record) raises FileNotFoundError,
\* whether the whole model or submodules were asked for.
C6_NotFound ==
  (out.op = "restore" /\ (DOMAIN files = {} \/ out.ckpt = <<>>))
    => out.err = "FileNotFoundError"

\* A restore of submodules found no record and raised FileNotFoundError.
C6_Witness ==
  /\ out.op = "restore" /\ out.keys # NoKeys /\ DOMAIN files = {}
  /\ out.err = "FileNotFoundError"

\* The record holds a model variable with a shape other than the live one.
ShapeDiffers(rec) ==
  \E v \in trainable_variables \cap DOMAIN rec.model : rec.model[v].shape # Shape(v)

\* The record lacks a variable that the model or an optimizer holds.
MissingFromRecord(rec, ts) ==
  \/ \E v \in trainable_variables : v \notin DOMAIN rec.model
  \/ \E o \in DOMAIN ts.iter :
       \/ o \notin DOMAIN rec.opt
       \/ ts.iter[o].st = "created" /\ rec.opt[o].iter = <<>>
       \/ \E v \in trainable_variables :
            ts.slot[o][v].st = "created" /\ v \notin DOMAIN rec.opt[o].slot

FullRestore == Did("restore") /\ out'.keys = NoKeys /\ out'.ckpt # <<>>

\* C7 as stated: a restore of the whole model raises whenever the record
\* mismatches the live model, by a shape or by a missing variable.
C7_RaisesOnAnyMismatch ==
  [][FullRestore =>
       LET rec == files[out'.ckpt[1]]
       IN  (ShapeDiffers(rec) \/ MissingFromRecord(rec, rep[1]))
             => out'.err # None]_vars

\* C7 amended: a restore of the whole model raises (ValueError) exactly when
\* a variable the record shares with the model has another shape; when it
\* raises nothing, every variable the record lacks keeps its value.
C7_RaisesOnShapeOnly ==
  [][FullRestore =>
       LET rec == files[out'.ckpt[1]]
       IN  /\ out'.err = (IF ShapeDiffers(rec) THEN "ValueError" ELSE None)
           /\ out'.err = None =>
                \A r \in DOMAIN rep :
                  /\ \A v \in trainable_variables \ DOMAIN rec.model :
                       rep'[r].w[v] = rep[r].w[v]
                  /\ \A o \in DOMAIN rep[r].iter :
                       /\ (o \notin DOMAIN rec.opt \/ rec.opt[o].iter = <<>>)
                            => rep'[r].iter[o] = rep[r].iter[o]
                       /\ \A v \in trainable_variables :
                            (o \notin DOMAIN rec.opt \/ v \notin DOMAIN rec.opt[o].slot)
                              => rep'[r].slot[o][v] = rep[r].slot[o][v]]_vars

\* A restore of the whole model has raised ValueError on a shape.
C7_Witness ==
  /\ out.op = "restore" /\ out.keys = NoKeys /\ out.ckpt # <<>>
  /\ out.err = "ValueError"
  /\ ShapeDiffers(files[out.ckpt[1]])

\* C8: a restore of submodules from an existing record raises only over a
\* variable of a requested submodule (one the record holds with another
\* shape): variables of the record outside the requested submodules, and
\* variables the record lacks, raise nothing, and the model variables outside
\* the requested submodules are left as they were.
C8_PartialToleratesUnrelated ==
  [][(Did("restore") /\ out'.keys # NoKeys /\ out'.ckpt # <<>>) =>
       LET rec == files[out'.ckpt[1]]
           requested == UNION {ModelAttr(k) : k \in out'.keys[1]}
       IN  /\ out'.err # None =>
                \E v \in requested \cap DOMAIN rec.model :
                  rec.model[v].shape # Shape(v)
           /\ out'.err = None =>
                \A r \in DOMAIN rep : \A v \in trainable_variables \ requested :
                  rep'[r].w[v] = rep[r].w[v]]_vars

\* A restore of the generator alone completed from a record that holds a
\* variable no submodule of the model has and lacks the discriminator.
C8_Witness ==
  /\ out.op = "restore" /\ out.err = None /\ out.ckpt # <<>>
  /\ out.keys = Keys({"generator"})
  /\ "x1" \in DOMAIN files[out.ckpt[1]].model
  /\ "d1" \notin DOMAIN files[out.ckpt[1]].model
  /\ rep[1].w["g1"] = files[out.ckpt[1]].model["g1"].val

\* C9: a completed restore that repeats the completed restore just before it
\* (same record, same keys, nothing in between) changes nothing: model
\* variables, optimizer variables and GlobalStep stay as the first left them.
C9_RestoreIdempotent ==
  [][(Did("restore") /\ out'.again /\ out'.err = None) => rep' = rep]_vars

\* A restore of a record has been repeated on a trainer that had trained.
C9_Witness ==
  /\ out.op = "restore" /\ out.again /\ out.err = None /\ out.ckpt # <<>>
  /\ \E v \in trainable_variables : rep[1].slot["optimizer"][v].st = "created"
  /\ step = out.ckpt[1]

\* C10: save leaves the value of every model variable, of every optimizer
\* variable and of GlobalStep as it was; in memory it does no more than
\* create the iterations variable of the primary optimizer that it reads.
C10_SaveChangesOnlyDirectory ==
  [][Did("save") =>
       \A r \in DOMAIN rep :
         /\ Value(rep'[r]) = Value(rep[r])
         /\ [rep'[r] EXCEPT !.iter["optimizer"] = rep[r].iter["optimizer"]] = rep[r]]_vars

\* A save has completed on a trainer that had trained.
C10_Witness ==
  /\ out.op = "save" /\ step >= 1 /\ step \in DOMAIN files
  /\ \E v \in trainable_variables : rep[1].slot["optimizer"][v].st = "created"

\* C11: a completed train_step handed the iterator draws exactly one batch
\* from it, the next of the dataset, and runs on that batch (out.batch, the
\* batch the replicas were run on); handed a batch it draws nothing and runs
\* on the batch as it is.  So k steps on one iterator consume its first k
\* batches, in order.
C11_DrawsOneBatch ==
  [][(Did("train_step") /\ out'.err = None) =>
       IF out'.inputs = "iterator"
       THEN /\ dataset_iter' = dataset_iter + 1
            /\ out'.batch = <<Dataset(dataset_iter + 1)>>
       ELSE /\ dataset_iter' = dataset_iter
            /\ out'.batch \in {<<b>> : b \in Batches}]_vars

\* Two train steps, both on the iterator, have completed: the second ran on
\* the second batch of the dataset, which differs from the first.
C11_Witness ==
  /\ n_ops = 2 /\ dataset_iter = 2
  /\ out.op = "train_step" /\ out.err = None /\ out.inputs = "iterator"
  /\ out.batch = <<Dataset(2)>> /\ Dataset(2) # Dataset(1)

Abs(x) == IF x >= 0 THEN x ELSE 0 - x

\* C12: the mapping a completed train_step returns has exactly the keys of
\* the LossMapping of every replica, and each value is the sum of that entry
\* over the replicas divided by their number (to the nearest unit); when the
\* replicas hold the same value, it is that value.
C12_LossesAveraged ==
  (out.op = "train_step" /\ out.err = None) =>
    LET per == [r \in 1..n_replicas |-> Losses(Shard(out.batch[1], r))]
        ret == out.losses[1]
    IN  /\ \A r \in 1..n_replicas : DOMAIN ret = DOMAIN per[r]
        /\ \A k \in DOMAIN ret :
             LET sum == ReduceSum([r \in 1..n_replicas |-> per[r][k]], n_replicas)
             IN  /\ 2 * Abs(n_replicas * ret[k] - sum) <= n_replicas
                 /\ (\A r \in 1..n_replicas : per[r][k] = per[1][k])
                      => ret[k] = per[1][k]

\* A GANTrainer on several replicas has completed a train step on a batch
\* whose shards give the replicas different losses.
C12_Witness ==
  /\ out.op = "train_step" /\ out.err = None /\ gan /\ n_replicas > 1
  /\ Losses(Shard(out.batch[1], 1)) # Losses(Shard(out.batch[1], 2))
  /\ DOMAIN out.losses[1] = {"total_g_loss", "total_d_loss", "total_other_loss"}

\* C13: however the train steps and restores follow one another, and whatever
\* shards the replicas are handed, every replica holds the same value in
\* every model variable and every optimizer variable: each replica clips the
\* gradients of its own shard, and all apply the same sum of them.
C13_ReplicasNeverDiverge ==
  \A r \in DOMAIN rep : rep[r] = rep[1]

\* Several replicas, handed different shards, have completed a train step
\* that moved the model variables.
C13_Witness ==
  /\ n_replicas > 1 /\ out.op = "train_step" /\ out.err = None
  /\ Shard(out.batch[1], 1) # Shard(out.batch[1], 2)
  /\ rep[1].w["g1"] # 0 /\ rep[2].w["g1"] = rep[1].w["g1"]

\* The gradients replica r computes for optimizer o in the train step on
\* batch b, before the clip and after it.
LocalGrads(o, b, r) == TapeGradient(OptimizerVars(gan, o), Shard(b, r))
LocalClipped(o, b, r) == ClippedGrads(o, Shard(b, r))

C15_NoneGradientsNeverRaise ==
  [][Did("train_step") =>
       /\ out'.err = None
       /\ step' = step + 1
       /\ \A r \in DOMAIN rep : \A v \in no_grad : rep'[r].w[v] = rep[r].w[v]]_vars

\* A save of this trainer has completed: a record it wrote is in the
\* directory (every later save leaves its own).
SaveCompleted == \E n \in DOMAIN files : files[n].saved # <<>>

\* C16: however train steps, saves and restores follow one another, once a
\* save has completed the directory holds at most checkpoints_to_keep
\* records, and the pointer of the `checkpoint` file, whenever there is one,
\* names a record that exists, as does every path the file tracks.
C16_RecordsBoundedPointerValid ==
  /\ SaveCompleted => Cardinality(DOMAIN files) <= checkpoints_to_keep
  /\ state_file.latest # <<>> => state_file.latest[1] \in DOMAIN files
  /\ SaveCompleted => state_file.latest # <<>>
  /\ Range(state_file.all) = DOMAIN files

\* A trainer that keeps one record has saved into a directory that held two:
\* both were deleted, and the pointer names the record written.
C16_Witness ==
  /\ checkpoints_to_keep = 1 /\ out.op = "save"
  /\ Cardinality(out.deleted) = 2
  /\ DOMAIN files = {step} /\ state_file.latest = <<step>>

\* (In C17 a step is a restore passed `keys` when it is a restore that went
\* by the scope the code derives from them.)
\* C17 as stated: the keys passed to restore() go before the constructor's,
\* the constructor's are used when restore() is passed None, and a completed
\* restore() with a list of keys assigns exactly the model variables of the
\* submodules the list names.
C17_ExplicitKeysTakePrecedence ==
  [][\A keys \in ArgKeys :
       (/\ Did("restore") /\ out'.err = None /\ out'.ckpt # <<>>
        /\ out'.keys = EffectiveKeys(keys)) =>
         LET scope == IF keys # NoKeys THEN keys ELSE restore_keys
             rec   == files[out'.ckpt[1]]
         IN  \A r \in DOMAIN rep : \A v \in trainable_variables :
               rep'[r].w[v] = IF v \in Requested(scope) \cap DOMAIN rec.model
                              THEN rec.model[v].val ELSE rep[r].w[v]]_vars

\* C17 amended: a non-empty list of keys passed to restore() goes before the
\* constructor's keys; None and the empty list count as no keys passed, and
\* the constructor's keys are used, the whole model when there are none.  A
\* completed restore assigns exactly the model variables of that scope.
C17_NonEmptyKeysTakePrecedence ==
  [][\A keys \in ArgKeys :
       (/\ Did("restore") /\ out'.err = None /\ out'.ckpt # <<>>
        /\ out'.keys = EffectiveKeys(keys)) =>
         LET scope == IF keys # NoKeys /\ keys[1] # {} THEN keys ELSE restore_keys
             rec   == files[out'.ckpt[1]]
         IN  \A r \in DOMAIN rep : \A v \in trainable_variables :
               rep'[r].w[v] = IF v \in Requested(scope) \cap DOMAIN rec.model
                              THEN rec.model[v].val ELSE rep[r].w[v]]_vars

\* A trainer constructed with the key generator has completed a restore
\* passed the key discriminator: the discriminator holds the record's
\* values, the generator does not.
C17_Witness ==
  /\ restore_keys = Keys({"generator"})
  /\ out.op = "restore" /\ out.err = None /\ out.ckpt # <<>>
  /\ out.keys = Keys({"discriminator"})
  /\ LET rec == files[out.ckpt[1]]
     IN  /\ {"g1", "d1"} \subseteq DOMAIN rec.model
         /\ rep[1].w["d1"] = rec.model["d1"].val
         /\ rep[1].w["g1"] # rec.model["g1"].val

\* C18: a restore that raises FileNotFoundError leaves every model variable,
\* every optimizer variable and GlobalStep on every replica as they were,
\* and the directory and the iterator too.
C18_NotFoundChangesNothing ==
  [][(Did("restore") /\ out'.err = "FileNotFoundError") =>
       /\ rep' = rep /\ step' = step
       /\ files' = files /\ state_file' = state_file
       /\ dataset_iter' = dataset_iter]_vars

\* A trainer that has trained was asked to restore, and no record was found.
C18_Witness ==
  /\ out.op = "restore" /\ out.err = "FileNotFoundError"
  /\ step >= 1 /\ rep[1].w["g1"] # 0

\* C19: a restore by keys, completed or not, leaves the model variables of
\* every submodule the keys do not name as they were.
C19_PartialRestoreFrame ==
  [][(Did("restore") /\ out'.keys # NoKeys) =>
       \A r \in DOMAIN rep :
         \A v \in trainable_variables \ Requested(out'.keys) :
           rep'[r].w[v] = rep[r].w[v]]_vars

\* A restore of the discriminator alone has completed from a record that
\* holds the generator too, with values the generator does not have.
C19_Witness ==
  /\ out.op = "restore" /\ out.err = None /\ out.ckpt # <<>>
  /\ out.keys = Keys({"discriminator"})
  /\ LET rec == files[out.ckpt[1]]
     IN  /\ {"g2", "d2"} \subseteq DOMAIN rec.model
         /\ rep[1].w["g2"] # rec.model["g2"].val
         /\ rep[1].w["d2"] = rec.model["d2"].val
         /\ step = rec.opt["optimizer"].iter[1]

\* The step counters of all the trainer's optimizers stand at GlobalStep.
StepCountersEqual ==
  \A r \in DOMAIN rep : \A o \in Optimizers(gan) : rep[r].iter[o].val = step

\* C20 as stated: the step counters of the three optimizers of a GANTrainer,
\* equal at construction, stay equal to GlobalStep over every completed train
\* step, every save, and every restore of a record the trainer saved.
C20_CountersEqualGlobalStep ==
  [][(/\ gan /\ StepCountersEqual
      /\ \/ Did("train_step") /\ out'.err = None
         \/ Did("save")
         \/ /\ Did("restore") /\ out'.err = None /\ out'.ckpt # <<>>
            /\ files[out'.ckpt[1]].saved # <<>>)
       => StepCountersEqual']_vars

====
